---- MODULE Spec2Model ----
(***************************************************************************)
(* Model of the Volyent desktop connection manager (XrayManager): the     *)
(* xray-core child process, the macOS system proxy, the traffic counters  *)
(* and the events that drive them (calls, readiness timer, process        *)
(* output and exit).                                                      *)
(*                                                                         *)
(* One TLA+ step is one run-to-completion turn of the Node event loop: a   *)
(* call up to its first suspension, or one event callback together with    *)
(* the promise continuation it releases.                                   *)
(***************************************************************************)
EXTENDS Integers, Sequences, FiniteSets, TLC

\* ---------------------------------------------------------------- bounds
MaxProcs == 2       \* engine processes spawned in one behaviour
MaxTraffic == 1     \* ceiling of each engine counter

\* ------------------------------------------------------------- constants
SOCKS_PORT == 10808
HTTP_PORT == 10809
API_PORT == 10085

NULL == "null"
NoProcess == 0              \* this.process === null
FailedHandle == -1          \* a ChildProcess object whose spawn failed
Services == {"Wi-Fi", "Ethernet"}
DefaultService == "Wi-Fi"
ExitCodes == {0, 1, -1}     \* -1: terminated by a signal (code === null)

\* ------------------------------------------------------------------ URIs
\* A descriptor is what `new URL(uri)` sees: wellformed is FALSE when the
\* URL constructor throws.
Uris == <<
  [wellformed |-> TRUE,  scheme |-> "vless", username |-> "uuid-1",
   hostname |-> "example.com", port |-> "443", security |-> "tls", type |-> "tcp"],
  [wellformed |-> TRUE,  scheme |-> "ss", username |-> "uuid-1",
   hostname |-> "example.com", port |-> "443", security |-> "tls", type |-> "tcp"],
  [wellformed |-> FALSE, scheme |-> "", username |-> "",
   hostname |-> "", port |-> "", security |-> "", type |-> ""] >>
UriIds == 1..Len(Uris)

\* Further descriptors for the parser: each differs from the first one in
\* the component named.  `new URL` accepts a vless URI without user info
\* (4) or without a port (5); it throws on an empty host after user info
\* (10) and on a port that is not made of digits (11).
Descriptors == Uris \o <<
  \* 4  vless://example.com:443?security=tls&type=tcp
  [wellformed |-> TRUE,  scheme |-> "vless", username |-> "",
   hostname |-> "example.com", port |-> "443", security |-> "tls", type |-> "tcp"],
  \* 5  vless://uuid-1@example.com?security=tls&type=tcp
  [wellformed |-> TRUE,  scheme |-> "vless", username |-> "uuid-1",
   hostname |-> "example.com", port |-> "", security |-> "tls", type |-> "tcp"],
  \* 6  vless://uuid-1@example.com:443?security=xtls&type=tcp
  [wellformed |-> TRUE,  scheme |-> "vless", username |-> "uuid-1",
   hostname |-> "example.com", port |-> "443", security |-> "xtls", type |-> "tcp"],
  \* 7  vless://uuid-1@example.com:443?security=tls&type=quic
  [wellformed |-> TRUE,  scheme |-> "vless", username |-> "uuid-1",
   hostname |-> "example.com", port |-> "443", security |-> "tls", type |-> "quic"],
  \* 8  vless://uuid-1@example.com:8443?security=reality&type=ws
  [wellformed |-> TRUE,  scheme |-> "vless", username |-> "uuid-1",
   hostname |-> "example.com", port |-> "8443", security |-> "reality", type |-> "ws"],
  \* 9  vless://uuid-1@example.com:443
  [wellformed |-> TRUE,  scheme |-> "vless", username |-> "uuid-1",
   hostname |-> "example.com", port |-> "443", security |-> "", type |-> ""],
  \* 10 vless://uuid-1@:443?security=tls&type=tcp
  [wellformed |-> FALSE, scheme |-> "vless", username |-> "uuid-1",
   hostname |-> "", port |-> "443", security |-> "tls", type |-> "tcp"],
  \* 11 vless://uuid-1@example.com:https?security=tls&type=grpc
  [wellformed |-> FALSE, scheme |-> "vless", username |-> "uuid-1",
   hostname |-> "example.com", port |-> "https", security |-> "tls", type |-> "grpc"] >>
DescriptorIds == 1..Len(Descriptors)

VARIABLES
  status,                \* this.status
  error,                 \* this.error
  process,               \* this.process (pid, NoProcess or FailedHandle)
  activeNetworkService,  \* this.activeNetworkService
  cumulativeStats,       \* this.cumulativeStats
  statsFile,             \* contents of STATS_PATH (<<>>: no file)
  configFile,            \* contents of CONFIG_PATH (<<>>: no file)
  procs,                 \* every process spawned so far, by pid
  hostProxy,             \* per network service, the proxy kinds switched on
  apiOwner,              \* pid of the process listening on API_PORT (0: none)
  engine,                \* traffic counters of that process
  binaryPresent,         \* bin/xray exists
  log,                   \* the effects of the last turn, in program order
  clock,                 \* backend: Date.now() / 1000
  users,                 \* backend: the users table, by telegram_id
  wire,                  \* backend: the codes and tokens issued so far
  trials,                \* bot: the free_trial handlers in flight
  sheet,                 \* Apps Script: column B of each key row
  claims,                \* Apps Script: the claimKey executions in flight
  held,                  \* the keys each Telegram user was given
  payments,              \* backend: the payments table
  starts,                \* backend: the /start handlers in flight
  vpnStatus,             \* main process: the status shown by the tray
  ui                     \* renderer: useConnection's state and its calls

\* The state of the desktop application and the state behind the network.
desktop == <<status, error, process, activeNetworkService, cumulativeStats,
             statsFile, configFile, procs, hostProxy, apiOwner, engine,
             binaryPresent, vpnStatus, ui>>
backend == <<clock, users, wire, trials, sheet, claims, held, payments,
            starts>>

vars == <<status, error, process, activeNetworkService, cumulativeStats,
          statsFile, configFile, procs, hostProxy, apiOwner, engine,
          binaryPresent, log, clock, users, wire, trials, sheet, claims,
          held, payments, starts, vpnStatus, ui>>

Ev(e, n) == [e |-> e, n |-> n]
ZeroStats == [uplink |-> 0, downlink |-> 0]

\* The part of the state the manager's methods read and write.
World == [status |-> status, error |-> error, process |-> process,
          activeNetworkService |-> activeNetworkService,
          cumulativeStats |-> cumulativeStats, statsFile |-> statsFile,
          configFile |-> configFile, procs |-> procs,
          hostProxy |-> hostProxy, log |-> log]

\* A tray whose Disconnect entry and 'vpn:disconnect' handler leave the
\* status shown as it was.
setVpnStatusOnConnectOnly(l, cur) ==
  CASE l # <<>> /\ l[1].e = "disconnect" -> cur
    [] l # <<>> /\ l[Len(l)].e = "return_ok" -> "connected"
    [] l # <<>> /\ l[Len(l)].e = "return_fail" -> "disconnected"
    [] l # <<>> /\ l[1].e = "connect" -> "connecting"
    [] OTHER -> cur

\* The tray status after a turn with effects l: the 'vpn:connect' handler
\* sets 'connecting' before it calls connect and 'connected' or
\* 'disconnected' when connect has returned; the 'vpn:disconnect' handler
\* and the tray's Disconnect set 'disconnected'.
setVpnStatus(l, cur) ==
  CASE l # <<>> /\ l[1].e = "disconnect" -> "disconnected"
    [] l # <<>> /\ l[Len(l)].e = "return_ok" -> "connected"
    [] l # <<>> /\ l[Len(l)].e = "return_fail" -> "disconnected"
    [] l # <<>> /\ l[1].e = "connect" -> "connecting"
    [] OTHER -> cur

\* The renderer: the state of useConnection, the engine processes whose
\* connect result a useConnection.connect call awaits, and the
\* handleSwitchServer call in flight (pc "idle": none) with the state its
\* closure captured and the descriptor it was given.
UiIdle == [state |-> "DISCONNECTED", awaiting |-> {},
           switch |-> [pc |-> "idle", seen |-> "DISCONNECTED", uri |-> 0]]

\* The state of the main process after a turn that ends in world w.
CommitMain(w) ==
  /\ vpnStatus' = setVpnStatus(w.log, vpnStatus)
  /\ status' = w.status
  /\ error' = w.error
  /\ process' = w.process
  /\ activeNetworkService' = w.activeNetworkService
  /\ cumulativeStats' = w.cumulativeStats
  /\ statsFile' = w.statsFile
  /\ configFile' = w.configFile
  /\ procs' = w.procs
  /\ hostProxy' = w.hostProxy
  /\ log' = w.log

\* A turn of the main process that no call of the renderer waits for.
Commit(w) == CommitMain(w) /\ ui' = ui

Emit(w, e, n) == [w EXCEPT !.log = Append(@, Ev(e, n))]

\* ------------------------------------------------------------- persistence
NoFile == <<>>
File(content) == <<content>>

_loadStats(file) == IF file # NoFile THEN file[1] ELSE ZeroStats

_saveStats(w) == [w EXCEPT !.statsFile = File(w.cumulativeStats)]

\* ------------------------------------------------------------------ parse
\* parseInt(url.port, 10): the value of the digits, NaN for the empty port.
NaN == -1
parseInt(str) == CASE str = "443" -> 443
                   [] str = "8443" -> 8443
                   [] str = "0" -> 0
                   [] str = "60" -> 60
                   [] str = "7" -> 7
                   [] str = "8" -> 8
                   [] OTHER -> NaN

parseVlessUri(uri) ==
  IF ~uri.wellformed
  THEN [ok |-> FALSE, err |-> "Invalid URL"]
  ELSE [ok |-> TRUE,
        outbound |-> [tag |-> "proxy", protocol |-> "vless",
                      address |-> uri.hostname,
                      port |-> parseInt(uri.port),
                      id |-> uri.username,
                      network |-> IF uri.type = "" THEN "tcp" ELSE uri.type,
                      security |-> IF uri.security \in {"tls", "reality"}
                                   THEN uri.security ELSE "none"]]

PrivateRanges == {"10.0.0.0/8", "172.16.0.0/12", "192.168.0.0/16",
                  "127.0.0.0/8"}

\* A generateConfig whose api inbound was copied from the socks inbound
\* with the port left as it was.
generateConfigSharedPort(uri) ==
  LET p == parseVlessUri(uri)
  IN IF ~p.ok THEN p
     ELSE [ok |-> TRUE,
           config |->
             [inbounds |-> <<[tag |-> "socks-in", port |-> SOCKS_PORT],
                             [tag |-> "http-in", port |-> HTTP_PORT],
                             [tag |-> "api", port |-> SOCKS_PORT]>>,
              outbounds |-> <<p.outbound,
                              [tag |-> "direct", protocol |-> "freedom"],
                              [tag |-> "block", protocol |-> "blackhole"]>>,
              rules |-> <<[inboundTag |-> "api", outboundTag |-> "api"],
                          [ip |-> PrivateRanges, outboundTag |-> "direct"]>>]]

generateConfig(uri) ==
  LET p == parseVlessUri(uri)
  IN IF ~p.ok THEN p
     ELSE [ok |-> TRUE,
           config |->
             [inbounds |-> <<[tag |-> "socks-in", port |-> SOCKS_PORT],
                             [tag |-> "http-in", port |-> HTTP_PORT],
                             [tag |-> "api", port |-> API_PORT]>>,
              outbounds |-> <<p.outbound,
                              [tag |-> "direct", protocol |-> "freedom"],
                              [tag |-> "block", protocol |-> "blackhole"]>>,
              rules |-> <<[inboundTag |-> "api", outboundTag |-> "api"],
                          [ip |-> PrivateRanges, outboundTag |-> "direct"]>>]]

\* ------------------------------------------------------------- host proxy
\* setSystemProxy runs six commands inside one try block; nOk of them
\* succeed before the first one throws (6: none throws).  The commands are
\* set-socks, socks-on, set-web, web-on, set-secure, secure-on.
KindsOn(nOk) == (IF nOk >= 2 THEN {"socks"} ELSE {})
                \cup (IF nOk >= 4 THEN {"http"} ELSE {})
                \cup (IF nOk >= 6 THEN {"https"} ELSE {})

setSystemProxy(w, svc, nOk) ==
  Emit([w EXCEPT !.activeNetworkService = svc,
                 !.hostProxy[svc] = @ \cup KindsOn(nOk)],
       "setSystemProxy", nOk)

\* unsetSystemProxy runs three commands inside one try block: socks-off,
\* web-off, secure-off; nOk of them succeed before the first one throws.
KindsOff(nOk) == (IF nOk >= 1 THEN {"socks"} ELSE {})
                 \cup (IF nOk >= 2 THEN {"http"} ELSE {})
                 \cup (IF nOk >= 3 THEN {"https"} ELSE {})

unsetSystemProxy(w, nOk) ==
  LET svc == IF w.activeNetworkService # NULL
             THEN w.activeNetworkService ELSE DefaultService
  IN Emit([w EXCEPT !.hostProxy[svc] = @ \ KindsOff(nOk)],
          "unsetSystemProxy", nOk)

\* ------------------------------------------------------------------ stats
\* One `xray api statsquery` against API_PORT: the sum of the matching
\* counters of whatever process listens there, 0 when the query fails.
\* A query that reports the counter although its command failed.
queryStatsUnguarded(pattern, ok) ==
  IF apiOwner # 0 THEN engine[pattern] ELSE 0

queryStats(pattern, ok) ==
  IF ok /\ apiOwner # 0 THEN engine[pattern] ELSE 0

\* A fold that overwrites the totals with the session counters.
_saveSessionOnly(w, okUp, okDown) ==
  IF ~binaryPresent THEN w
  ELSE LET up == queryStats("uplink", okUp)
           down == queryStats("downlink", okDown)
       IN Emit(_saveStats([w EXCEPT !.cumulativeStats.uplink = up,
                                    !.cumulativeStats.downlink = down]),
               "fold", up + down)

_saveCumulativeFromSession(w, okUp, okDown) ==
  IF ~binaryPresent THEN w
  ELSE LET up == queryStats("uplink", okUp)
           down == queryStats("downlink", okDown)
       IN Emit(_saveStats([w EXCEPT !.cumulativeStats.uplink = @ + up,
                                    !.cumulativeStats.downlink = @ + down]),
               "fold", up + down)

\* ---------------------------------------------------------------- cleanup
\* A cleanup that drops the handle without signalling the process.
killNothing(w) == Emit(w, "kill", w.process)

kill(w) ==
  LET p == w.process
  IN Emit(IF p \in DOMAIN w.procs /\ w.procs[p].st = "running"
          THEN [w EXCEPT !.procs[p].signalled = TRUE]
          ELSE w,
          "kill", p)

\* in: the inputs of one cleanup (query outcomes, host command outcomes)
\* A cleanup that leaves the config file where it is.
keepConfig(w) == Emit(w, "unlink", 0)

unlinkConfig(w) == Emit([w EXCEPT !.configFile = NoFile], "unlink", 0)

\* A cleanup that folds the counters whatever the state.
cleanupAlwaysFold(w, in) ==
  LET w1 == _saveCumulativeFromSession(w, in.okUp, in.okDown)
      w2 == IF w1.process # NoProcess
            THEN [kill(w1) EXCEPT !.process = NoProcess]
            ELSE w1
  IN unlinkConfig(unsetSystemProxy(w2, in.nOff))

\* A cleanup that signals the process before it folds the counters.
cleanupKillFirst(w, in) ==
  LET w1 == IF w.process # NoProcess THEN kill(w) ELSE w
      w2 == IF w.process # NoProcess /\ w.status = "connected"
            THEN _saveCumulativeFromSession(w1, in.okUp, in.okDown)
            ELSE w1
  IN unlinkConfig(unsetSystemProxy([w2 EXCEPT !.process = NoProcess], in.nOff))

cleanup(w, in) ==
  LET w1 == IF w.process # NoProcess /\ w.status = "connected"
            THEN _saveCumulativeFromSession(w, in.okUp, in.okDown)
            ELSE w
      w2 == IF w1.process # NoProcess
            THEN [kill(w1) EXCEPT !.process = NoProcess]
            ELSE w1
  IN unlinkConfig(unsetSystemProxy(w2, in.nOff))

disconnect(w, in) ==
  [cleanup(w, in) EXCEPT !.status = "disconnected", !.error = NULL]

\* ---------------------------------------------------------------- connect
\* The catch block of connect.
connectCatch(w, msg, in) ==
  Emit(cleanup([w EXCEPT !.status = "error", !.error = msg], in),
       "return_fail", 0)

\* A connect whose proxy step throws when one of its commands fails.
connectResumeStrict(w, svc, nOn) ==
  IF nOn < 6
  THEN Emit(cleanup([setSystemProxy(w, svc, nOn)
                       EXCEPT !.status = "error",
                              !.error = "Failed to set system proxy"],
                    [okUp |-> TRUE, okDown |-> TRUE, nOff |-> 3]),
            "return_fail", 0)
  ELSE Emit([setSystemProxy(w, svc, nOn) EXCEPT !.status = "connected"],
            "return_ok", 0)

\* The code after the await: the readiness promise was resolved.
connectResume(w, svc, nOn) ==
  Emit([setSystemProxy(w, svc, nOn) EXCEPT !.status = "connected"],
       "return_ok", 0)

NewProc == [st |-> "running", signalled |-> FALSE, pending |-> TRUE,
            out |-> "none"]

\* connect up to its await (or to its return, when it fails before).
connectStart(w, uri, spawnOk, in1, in2) ==
  LET w1 == IF w.process # NoProcess THEN disconnect(w, in1) ELSE w
      w2 == [w1 EXCEPT !.status = "connecting", !.error = NULL]
      g == generateConfig(uri)
  IN IF ~g.ok THEN connectCatch(w2, g.err, in2)
     ELSE LET w3 == Emit([w2 EXCEPT !.configFile = File(g.config)], "writeConfig", 0)
          IN IF ~binaryPresent
             THEN connectCatch(w3, "xray binary not found", in2)
             ELSE IF ~spawnOk
             THEN connectCatch(Emit([w3 EXCEPT !.process = FailedHandle],
                                    "spawnFailed", 0),
                               "xray spawn error", in2)
             ELSE LET pid == Len(w3.procs) + 1
                  IN Emit([w3 EXCEPT !.procs = Append(@, NewProc),
                                     !.process = pid],
                          "spawn", pid)

Started(w) == [w EXCEPT !.log = <<>>]

\* ---------------------------------------------------------------- backend
\* The users table: one row per telegram_id, present once registered.
TelegramIds == {7, 8}
NoUser == [registered |-> FALSE, trial_used |-> 0, until |-> 0,
           referred_by |-> 0, referral_count |-> 0]
NewUser == [registered |-> TRUE, trial_used |-> 0, until |-> 0,
            referred_by |-> 0, referral_count |-> 0]

\* INSERT ... ON CONFLICT(telegram_id) DO UPDATE of the profile columns.
upsertUser(table, id) ==
  IF table[id].registered THEN table ELSE [table EXCEPT ![id] = NewUser]

findUserByTelegramId(table, id) == table[id]

\* jsonwebtoken: sign(payload, secret, {expiresIn}) and verify(token,
\* secret), which throws on a malformed token, on a signature made with
\* another secret and from the second `exp` on.
JWT_SECRET == "JWT_SECRET"
TELEGRAM_BOT_TOKEN == "TELEGRAM_BOT_TOKEN"
ExchangeTtl == 60
RedirectTtl == 120
AccessTtl == 86400
RefreshTtl == 2592000
MaxAgeSeconds == 86400
Epoch == 86400

jwtSign(payload, secret, ttl, now) ==
  [wellformed |-> TRUE, key |-> secret, telegram_id |-> payload.telegram_id,
   purpose |-> payload.purpose, type |-> payload.type, exp |-> now + ttl]

jwtVerify(token, secret, now) ==
  token.wellformed /\ token.key = secret /\ now < token.exp

\* What a client can post besides the codes it was issued: a string that
\* is no token, a code signed with another secret, an access token, the
\* correctly signed code with purpose 'access' of the test.
Foreign == <<
  [wellformed |-> FALSE, key |-> "", telegram_id |-> 0, purpose |-> "",
   type |-> "", exp |-> 0],
  [wellformed |-> TRUE, key |-> "other secret", telegram_id |-> 7,
   purpose |-> "exchange", type |-> NULL, exp |-> Epoch + AccessTtl],
  [wellformed |-> TRUE, key |-> JWT_SECRET, telegram_id |-> 7,
   purpose |-> NULL, type |-> "access", exp |-> Epoch + AccessTtl],
  [wellformed |-> TRUE, key |-> JWT_SECRET, telegram_id |-> 7,
   purpose |-> "access", type |-> NULL, exp |-> Epoch + AccessTtl] >>

\* A posted code: 0 for a body without code, n > 0 for the n-th code or
\* token issued, -k for Foreign[k].
CodeRefs == {0} \cup DOMAIN wire \cup {-k : k \in DOMAIN Foreign}
Presented(ref) == IF ref > 0 THEN wire[ref] ELSE Foreign[-ref]

\* Telegram login data: the query parameters in the order of the URL and
\* the hash (<<>>: no hash parameter).
KeyOrder == <<"auth_date", "first_name", "id">>
Rank(k) == CHOOSE i \in DOMAIN KeyOrder : KeyOrder[i] = k

\* Object.keys(rest).sort().map(key => key=value).join('\n')
dataCheckString(rest) ==
  CHOOSE str \in [DOMAIN rest -> {rest[i] : i \in DOMAIN rest}] :
    /\ {str[i] : i \in DOMAIN str} = {rest[i] : i \in DOMAIN rest}
    /\ \A i, j \in DOMAIN str : i < j => Rank(str[i].k) < Rank(str[j].k)

sha256(str) == [sha256 |-> str]
hmacSha256(key, str) == [key |-> key, msg |-> str]

Param(rest, k) ==
  IF \E i \in DOMAIN rest : rest[i].k = k
  THEN (CHOOSE f \in {rest[i] : i \in DOMAIN rest} : f.k = k).v
  ELSE "undefined"

\* A validateTelegramHash that accepts a login of any age.
validateTelegramHashAnyAge(data, botToken, maxAgeSeconds, now) ==
  /\ data.hash # <<>>
  /\ parseInt(Param(data.fields, "auth_date")) # NaN
  /\ hmacSha256(sha256(botToken), dataCheckString(data.fields)) = data.hash[1]

validateTelegramHash(data, botToken, maxAgeSeconds, now) ==
  /\ data.hash # <<>>
  /\ parseInt(Param(data.fields, "auth_date")) # NaN
  /\ ~(now - parseInt(Param(data.fields, "auth_date")) > maxAgeSeconds)
  /\ hmacSha256(sha256(botToken), dataCheckString(data.fields)) = data.hash[1]

\* The hash Telegram computes for the fields it sends.
telegramSign(fields, botToken) ==
  <<hmacSha256(sha256(botToken), dataCheckString(fields))>>

Fields(id, first_name, auth_date) ==
  <<[k |-> "id", v |-> id], [k |-> "first_name", v |-> first_name],
    [k |-> "auth_date", v |-> auth_date]>>

Logins == <<
  \* 1  what Telegram sent, 60 s after the epoch
  [fields |-> Fields("7", "Test", "60"),
   hash |-> telegramSign(Fields("7", "Test", "60"), TELEGRAM_BOT_TOKEN)],
  \* 2  the same with first_name changed afterwards
  [fields |-> Fields("7", "Hacker", "60"),
   hash |-> telegramSign(Fields("7", "Test", "60"), TELEGRAM_BOT_TOKEN)],
  \* 3  what Telegram sent at the epoch
  [fields |-> Fields("7", "Test", "0"),
   hash |-> telegramSign(Fields("7", "Test", "0"), TELEGRAM_BOT_TOKEN)],
  \* 4  the hash parameter removed
  [fields |-> Fields("7", "Test", "60"), hash |-> <<>>],
  \* 5  signed with the token of another bot
  [fields |-> Fields("7", "Test", "60"),
   hash |-> telegramSign(Fields("7", "Test", "60"), "other token")],
  \* 6  an auth_date that is no number, signed by the bot token
  [fields |-> Fields("8", "Test", "soon"),
   hash |-> telegramSign(Fields("8", "Test", "soon"), TELEGRAM_BOT_TOKEN)],
  \* 7  the id changed afterwards
  [fields |-> Fields("8", "Test", "60"),
   hash |-> telegramSign(Fields("7", "Test", "60"), TELEGRAM_BOT_TOKEN)],
  \* 8  what Telegram sent for user 8
  [fields |-> Fields("8", "Test", "60"),
   hash |-> telegramSign(Fields("8", "Test", "60"), TELEGRAM_BOT_TOKEN)] >>

\* The activation keys sheet: the rows are the keys, in sheet order, and
\* column B of a row lists the telegram ids that claimed the key.
MAX_USERS_PER_KEY == 5
Keys == {1, 2}
Claimants == TelegramIds \cup (1..(MAX_USERS_PER_KEY - 1))
Listed(ids) == {ids[i] : i \in DOMAIN ids}
FirstOf(S) == CHOOSE j \in S : \A k \in S : j <= k

\* A claimKey that does not skip the keys that are full.
claimKeyNoLimit(data, tg) ==
  LET free == {j \in DOMAIN data : tg \notin Listed(data[j])}
  IN IF free = {} THEN [key |-> 0, ids |-> <<>>]
     ELSE [key |-> FirstOf(free), ids |-> Append(data[FirstOf(free)], tg)]

\* claimKey on the values read from the sheet: the key given (0: none)
\* and the id list written to its row.
claimKey(data, tg) ==
  LET free == {j \in DOMAIN data : /\ Len(data[j]) < MAX_USERS_PER_KEY
                            /\ tg \notin Listed(data[j])}
  IN IF free = {} THEN [key |-> 0, ids |-> <<>>]
     ELSE [key |-> FirstOf(free), ids |-> Append(data[FirstOf(free)], tg)]

\* sheet.getRange(row, 2).setValue(ids.join(', '))
setValue(rows, res) ==
  IF res.key = 0 THEN rows ELSE [rows EXCEPT ![res.key] = res.ids]

\* The key is sent to the user.
Give(h, tg, res) ==
  IF res.key = 0 THEN h ELSE [h EXCEPT ![tg] = @ \cup {res.key}]

\* ---------------------------------------------------------------- actions
DesktopInit ==
  /\ status = "disconnected"
  /\ error = NULL
  /\ process = NoProcess
  /\ activeNetworkService = NULL
  /\ statsFile \in {NoFile, File([uplink |-> 1, downlink |-> 0])}
  /\ cumulativeStats = _loadStats(statsFile)
  /\ configFile = NoFile
  /\ procs = <<>>
  /\ hostProxy = [s \in Services |-> {}]
  /\ apiOwner = 0
  /\ engine = ZeroStats
  /\ binaryPresent \in BOOLEAN
  /\ vpnStatus = "disconnected"
  /\ ui = UiIdle
  /\ log = <<>>

\* The application started with no statistics file and the engine present.
DesktopIdle ==
  /\ status = "disconnected"
  /\ error = NULL
  /\ process = NoProcess
  /\ activeNetworkService = NULL
  /\ statsFile = NoFile
  /\ cumulativeStats = _loadStats(statsFile)
  /\ configFile = NoFile
  /\ procs = <<>>
  /\ hostProxy = [s \in Services |-> {}]
  /\ apiOwner = 0
  /\ engine = ZeroStats
  /\ binaryPresent = TRUE
  /\ vpnStatus = "disconnected"
  /\ ui = UiIdle
  /\ log = <<>>

\* The backend with no user, no code issued and nothing in flight, the
\* sheet with two keys no one has claimed.
BackendIdle ==
  /\ clock = Epoch
  /\ users = [u \in TelegramIds |-> NoUser]
  /\ wire = <<>>
  /\ trials = <<>>
  /\ sheet = [k \in Keys |-> <<>>]
  /\ claims = <<>>
  /\ held = [u \in Claimants |-> {}]
  /\ payments = <<>>
  /\ starts = <<>>

Init == DesktopInit /\ BackendIdle

\* The inputs a cleanup can read in world w: the outcome of the two counter
\* queries (read only when cleanup folds and a process answers on API_PORT)
\* and of the three proxy-off commands, drawn from Off.
QueryOutcomes(w) ==
  IF w.process # NoProcess /\ w.status = "connected" /\ binaryPresent
     /\ apiOwner # 0
  THEN BOOLEAN ELSE {TRUE}

InputsOf(w, Off) ==
  [okUp : QueryOutcomes(w), okDown : QueryOutcomes(w), nOff : Off]

NoFold(Off) == [okUp : {TRUE}, okDown : {TRUE}, nOff : Off]
Unused == [okUp : {TRUE}, okDown : {TRUE}, nOff : {3}]

Reliable == {3}          \* every proxy-off command succeeds
ReliableOn == {6}        \* every proxy-on command succeeds
Faulty == 0..3           \* proxy-off commands may throw
FaultyOn == 0..6         \* proxy-on commands may throw

Pending == {p \in DOMAIN procs : procs[p].pending}
Running == {p \in DOMAIN procs : procs[p].st = "running"}

\* The readiness promise of the connect that spawned p is settled; its
\* outputBuf is never read again.
Settle(w, p) == [w EXCEPT !.procs[p].pending = FALSE, !.procs[p].out = "none"]

\* ipcMain.handle('vpn:connect'): xray.connect(uri) up to its await.  A
\* spawn that fails emits 'error' on the next tick, before any other event,
\* so the rejection and the catch block belong to the same turn.
ConnectOn(Ids, Spawn, Off) ==
  \E u \in Ids, spawnOk \in Spawn :
    \E in1 \in (IF process # NoProcess THEN InputsOf(World, Off) ELSE Unused),
       in2 \in (IF Descriptors[u].wellformed /\ binaryPresent /\ spawnOk
                THEN Unused ELSE NoFold(Off)) :
      LET w == connectStart(Emit(Started(World), "connect", u),
                            Descriptors[u],
                            spawnOk, in1, in2)
      IN /\ Len(w.procs) <= MaxProcs
         /\ Commit(w)
         /\ UNCHANGED <<apiOwner, engine, binaryPresent, backend>>

\* ipcMain.handle('vpn:disconnect'), the tray's Disconnect, quit.  The
\* call is logged with 1 when the turn before it was a disconnect too.
AfterDisconnect == log # <<>> /\ log[1].e = "disconnect"

DisconnectOn(Off) ==
  \E in \in InputsOf(World, Off) :
    /\ Commit(Emit(disconnect(Emit(Started(World), "disconnect",
                                   IF AfterDisconnect THEN 1 ELSE 0), in),
                   "return_ok", 0))
    /\ UNCHANGED <<apiOwner, engine, binaryPresent, backend>>

\* setTimeout(() => resolve(), 3000) fires for the connect that spawned p.
ReadyTimeoutOn(Svcs, On) ==
  \E p \in Pending, svc \in Svcs, nOn \in On :
    /\ Commit(connectResume(Settle(Emit(Started(World), "timeout", p), p),
                            svc, nOn))
    /\ UNCHANGED <<apiOwner, engine, binaryPresent, backend>>

\* outputBuf as far as the exit handler reads it: nothing captured, text
\* without 'Failed to start:', or text with it.
Capture(out, chunk) ==
  IF out = "failed" \/ chunk = "failed" THEN "failed" ELSE "text"

\* A readiness test that takes any output for the marker.
ReadyOnAnyOutput(chunk) == TRUE

\* msg.includes('started') || msg.includes('listening')
Ready(chunk) == chunk = "marker"

\* process.stdout.on('data'): a chunk with or without the readiness marker.
\* Once the promise is settled the handler has no effect left to observe.
ProcStdoutOn(Chunks, Svcs, On) ==
  \E p \in Pending \cap Running, chunk \in Chunks :
    \E svc \in (IF chunk = "marker" THEN Svcs ELSE {DefaultService}),
       nOn \in (IF chunk = "marker" THEN On ELSE ReliableOn) :
      /\ LET w == [Emit(Emit(Started(World), "stdout", p), chunk, p)
                     EXCEPT !.procs[p].out = Capture(@, chunk)]
         IN Commit(IF Ready(chunk)
                   THEN connectResume(Settle(w, p), svc, nOn)
                   ELSE w)
      /\ UNCHANGED <<apiOwner, engine, binaryPresent, backend>>

\* process.stderr.on('data')
ProcStderr ==
  \E p \in Pending \cap Running, chunk \in {"text", "failed"} :
    /\ Commit([Emit(Started(World), "stderr", p)
                 EXCEPT !.procs[p].out = Capture(@, chunk)])
    /\ UNCHANGED <<apiOwner, engine, binaryPresent, backend>>

ExitMessage(out) ==
  CASE out = "failed" -> "xray error: <text after Failed to start:>"
    [] out = "text"   -> "xray error: <captured output>"
    [] OTHER          -> "xray error: "

Exited(code) ==
  CASE code = 0 -> "exited:0"
    [] code = 1 -> "exited:1"
    [] OTHER    -> "exited:signal"

\* The exit handler of the connect that spawned p rejects its promise.
Rejects(p, code) ==
  procs[p].pending /\ code # 0 /\ status = "connecting"

\* An exit handler that starts the engine again when the process ends.
ProcExitRespawning(Off) ==
  \E p \in Running, code \in ExitCodes :
    /\ code = -1 => procs[p].signalled
    /\ Len(procs) < MaxProcs
    /\ LET w == [Emit(Emit(Started(World), "exit", p), "code", code)
                   EXCEPT !.procs[p].st = Exited(code)]
           pid == Len(procs) + 1
       IN Commit(Emit([w EXCEPT !.procs = Append(@, NewProc),
                                !.process = pid],
                      "spawn", pid))
    /\ apiOwner' = IF apiOwner = p THEN 0 ELSE apiOwner
    /\ UNCHANGED <<engine, binaryPresent, backend>>

\* process.on('exit'): the engine process p ends with code.
ProcExitOn(Off) ==
  \E p \in Running, code \in ExitCodes :
    \E nOff \in (IF Rejects(p, code) THEN Off ELSE Reliable) :
      /\ code = -1 => procs[p].signalled
      /\ LET w == [Emit(Emit(Started(World), "exit", p), "code", code)
                     EXCEPT !.procs[p].st = Exited(code)]
         IN Commit(IF Rejects(p, code)
                   THEN connectCatch(Settle(w, p), ExitMessage(procs[p].out),
                                     [okUp |-> TRUE, okDown |-> TRUE,
                                      nOff |-> nOff])
                   ELSE w)
      /\ apiOwner' = IF apiOwner = p THEN 0 ELSE apiOwner
      /\ UNCHANGED <<engine, binaryPresent, backend>>

\* The engine process p binds its inbound ports, API_PORT among them.
ProcListen ==
  \E p \in Running :
    /\ apiOwner = 0
    /\ apiOwner' = p
    /\ engine' = ZeroStats
    /\ log' = <<Ev("listen", p)>>
    /\ UNCHANGED <<status, error, process, activeNetworkService,
                   cumulativeStats, statsFile, configFile, procs, hostProxy,
                   binaryPresent, vpnStatus, ui, backend>>

\* Bytes pass through the listening engine process.
Traffic ==
  \E dir \in {"uplink", "downlink"} :
    /\ apiOwner # 0
    /\ engine[dir] < MaxTraffic
    /\ engine' = [engine EXCEPT ![dir] = @ + 1]
    /\ log' = <<Ev("traffic", apiOwner)>>
    /\ UNCHANGED <<status, error, process, activeNetworkService,
                   cumulativeStats, statsFile, configFile, procs, hostProxy,
                   apiOwner, binaryPresent, vpnStatus, ui, backend>>

\* The two counter queries of getTrafficStats, logged with 1 when the
\* command succeeded.
Queried(w, okUp, okDown) ==
  Emit(Emit(w, "uplinkQuery", IF okUp THEN 1 ELSE 0),
       "downlinkQuery", IF okDown THEN 1 ELSE 0)

\* A getTrafficStats that fills in this.cumulativeStats itself instead of a
\* copy of it.
getTrafficStatsAliased(w, okUp, okDown) ==
  IF w.status # "connected" \/ w.process = NoProcess \/ ~binaryPresent
  THEN Emit(Emit(w, "uplink", w.cumulativeStats.uplink),
            "downlink", w.cumulativeStats.downlink)
  ELSE LET sessionUp == queryStats("uplink", okUp)
           sessionDown == queryStats("downlink", okDown)
           total == [uplink |-> w.cumulativeStats.uplink + sessionUp,
                     downlink |-> w.cumulativeStats.downlink + sessionDown]
       IN Emit(Emit(Emit(Emit(Queried([w EXCEPT !.cumulativeStats = total],
                                      okUp, okDown),
            "uplink", total.uplink), "downlink", total.downlink),
            "sessionUplink", sessionUp), "sessionDownlink", sessionDown)

\* getTrafficStats(): what it returns, as effects of the turn.
getTrafficStats(w, okUp, okDown) ==
  LET base == Emit(Emit(w, "uplink", w.cumulativeStats.uplink),
                   "downlink", w.cumulativeStats.downlink)
  IN IF w.status # "connected" \/ w.process = NoProcess \/ ~binaryPresent
     THEN base
     ELSE LET sessionUp == queryStats("uplink", okUp)
              sessionDown == queryStats("downlink", okDown)
          IN Emit(Emit(Emit(Emit(Queried(w, okUp, okDown),
               "uplink", w.cumulativeStats.uplink + sessionUp),
               "downlink", w.cumulativeStats.downlink + sessionDown),
               "sessionUplink", sessionUp),
               "sessionDownlink", sessionDown)

\* ipcMain.handle('vpn:stats')
GetTrafficStats ==
  \E okUp \in QueryOutcomes(World), okDown \in QueryOutcomes(World) :
    /\ Commit(getTrafficStats(Emit(Started(World), "stats", 0), okUp, okDown))
    /\ UNCHANGED <<apiOwner, engine, binaryPresent, backend>>

\* getStatus(): the returned status and error, as effects of the turn.
getStatus(w) == Emit(Emit(w, w.status, 0), w.error, 0)

\* ipcMain.handle('vpn:status')
GetStatus ==
  /\ Commit(getStatus(Emit(Started(World), "getStatus", 0)))
  /\ UNCHANGED <<apiOwner, engine, binaryPresent, backend>>

\* ------------------------------------------------------- specifications
\* No host command reads or writes anything but hostProxy, and nothing in
\* the manager reads hostProxy; the engine counters reach nothing but
\* cumulativeStats and statsFile, which no branch of the manager tests.
\* The behaviours are therefore explored in three projections.

\* Spec: the life cycle, every host command succeeding, no traffic.
Connect == ConnectOn(UriIds, BOOLEAN, Reliable)
Disconnect == DisconnectOn(Reliable)
ReadyTimeout == ReadyTimeoutOn(Services, ReliableOn)
ProcStdout == ProcStdoutOn({"text", "failed", "marker"}, Services, ReliableOn)
ProcExit == ProcExitOn(Reliable)

Next ==
  \/ Connect
  \/ Disconnect
  \/ ReadyTimeout
  \/ ProcStdout
  \/ ProcStderr
  \/ ProcExit

Spec == Init /\ [][Next]_vars

\* SpecHost: the life cycle with host commands that may throw; of the
\* engine's output only the readiness marker.
ConnectFaulty == ConnectOn(UriIds, BOOLEAN, Faulty)
DisconnectFaulty == DisconnectOn(Faulty)
ReadyTimeoutFaulty == ReadyTimeoutOn(Services, FaultyOn)
ProcStdoutFaulty == ProcStdoutOn({"marker"}, Services, FaultyOn)
ProcExitFaulty == ProcExitOn(Faulty)

NextHost ==
  \/ ConnectFaulty
  \/ DisconnectFaulty
  \/ ReadyTimeoutFaulty
  \/ ProcStdoutFaulty
  \/ ProcExitFaulty

SpecHost == Init /\ [][NextHost]_vars

\* SpecStats: the life cycle with a metering engine, on one network
\* service; of the engine's output only the readiness marker, and every
\* connect with the first descriptor and a spawn that succeeds.
ConnectFirst == ConnectOn({1}, {TRUE}, Reliable)
ReadyTimeoutWifi == ReadyTimeoutOn({DefaultService}, ReliableOn)
ProcStdoutMarker == ProcStdoutOn({"marker"}, {DefaultService}, ReliableOn)

NextStats ==
  \/ ConnectFirst
  \/ Disconnect
  \/ ReadyTimeoutWifi
  \/ ProcStdoutMarker
  \/ ProcExit
  \/ ProcListen
  \/ Traffic
  \/ GetTrafficStats

SpecStats == Init /\ [][NextStats]_vars

\* SpecReads: one session with traffic and the two queries of the renderer.
NextReads ==
  \/ ConnectFirst
  \/ Disconnect
  \/ ReadyTimeoutWifi
  \/ ProcListen
  \/ Traffic
  \/ GetTrafficStats
  \/ GetStatus

SpecReads == Init /\ [][NextReads]_vars

\* SpecEnable: the life cycle on one descriptor with the resolution of the
\* network service and the proxy-on commands failing or not.
NoRoute == ""            \* `route -n get default` printed no interface
Routes == Services \cup {NoRoute}

\* getActiveNetworkService(): the hardware port of the default route's
\* interface, 'Wi-Fi' when there is no route or a command throws.
getActiveNetworkService(route, ok) ==
  IF ok /\ route # NoRoute THEN route ELSE DefaultService

\* The readiness promise of the connect that spawned p is resolved and the
\* rest of connect runs; the resolution is logged with 1 when it succeeded.
Resolving(w, p) ==
  \E route \in Routes, ok \in BOOLEAN, nOn \in FaultyOn :
    /\ Commit(connectResume(Emit(Settle(w, p), "getActiveNetworkService",
                                 IF ok /\ route # NoRoute THEN 1 ELSE 0),
                            getActiveNetworkService(route, ok), nOn))
    /\ UNCHANGED <<apiOwner, engine, binaryPresent, backend>>

ReadyTimeoutResolving ==
  \E p \in Pending : Resolving(Emit(Started(World), "timeout", p), p)

ProcStdoutResolving ==
  \E p \in Pending \cap Running :
    Resolving(Emit(Emit(Started(World), "stdout", p), "marker", p), p)

NextEnable ==
  \/ ConnectFirst
  \/ Disconnect
  \/ ReadyTimeoutResolving
  \/ ProcStdoutResolving

SpecEnable == Init /\ [][NextEnable]_vars

\* SpecTeardown: connect on one descriptor, readiness by the timer, and
\* disconnect, with proxy-on and proxy-off commands that may throw.
NextTeardown ==
  \/ ConnectFirst
  \/ ReadyTimeoutFaulty
  \/ DisconnectFaulty

SpecTeardown == Init /\ [][NextTeardown]_vars

\* SpecUi: the renderer's useConnection hook and handleSwitchServer on top
\* of the manager; a call over IPC and the handler it invokes in the main
\* process make one turn, and so do a handler's return and the continuation
\* of the call that awaited it.  Every host command succeeds.
OtherServer == 8         \* the descriptor of the server switched to
NoSwitch == [pc |-> "idle", seen |-> "DISCONNECTED", uri |-> 0]

\* if (state === CONNECTING || state === CONNECTED) return;  with the state
\* captured by the closure of the connect that is called.
Proceeds(seen) == seen \notin {"CONNECTING", "CONNECTED"}

\* useConnection.connect(uri) past its guard, up to the await inside the
\* 'vpn:connect' handler (or to its result, when connect fails before).
UiConnect(u, sw) ==
  \E in1 \in (IF process # NoProcess THEN InputsOf(World, Reliable)
              ELSE Unused) :
    LET w == connectStart(Emit(Started(World), "connect", u),
                          Descriptors[u], TRUE, in1, Unused)
        failed == w.log[Len(w.log)].e = "return_fail"
    IN /\ Len(w.procs) <= MaxProcs
       /\ CommitMain(w)
       /\ ui' = [state |-> IF failed THEN "ERROR" ELSE "CONNECTING",
                 awaiting |-> IF failed THEN ui.awaiting
                              ELSE ui.awaiting \cup {w.process},
                 switch |-> sw]

\* useConnection.disconnect(): 'vpn:disconnect', then DISCONNECTED.
UiDisconnect(sw) ==
  \E in \in InputsOf(World, Reliable) :
    /\ CommitMain(Emit(disconnect(Emit(Started(World), "disconnect",
                                       IF AfterDisconnect THEN 1 ELSE 0), in),
                       "return_ok", 0))
    /\ ui' = [ui EXCEPT !.state = "DISCONNECTED", !.switch = sw]

\* The power button: toggle(vlessUri) of the current render.
UiToggle ==
  /\ \/ ui.state = "CONNECTED" /\ UiDisconnect(ui.switch)
     \/ /\ ui.state \in {"DISCONNECTED", "ERROR"}
        /\ Proceeds(ui.state)
        /\ UiConnect(1, ui.switch)
  /\ UNCHANGED <<apiOwner, engine, binaryPresent, backend>>

\* handleSelectServer with another server while CONNECTED:
\* handleSwitchServer up to its setTimeout.  The connection object it
\* holds is the one of the render in which the server was selected.
UiSelectServer ==
  /\ ui.state = "CONNECTED"
  /\ ui.switch.pc = "idle"
  /\ UiDisconnect([pc |-> "timer", seen |-> ui.state, uri |-> OtherServer])
  /\ UNCHANGED <<apiOwner, engine, binaryPresent, backend>>

\* setTimeout(() => connection.connect(newUri), 300) fires.
UiSwitchTimer ==
  /\ ui.switch.pc = "timer"
  /\ IF Proceeds(ui.switch.seen)
     THEN UiConnect(ui.switch.uri, NoSwitch)
     ELSE /\ CommitMain([World EXCEPT
                           !.log = <<Ev("switchConnect", ui.switch.uri),
                                     Ev("ignored", 0)>>])
          /\ ui' = [ui EXCEPT !.switch = NoSwitch]
  /\ UNCHANGED <<apiOwner, engine, binaryPresent, backend>>

\* The readiness timer of the connect that spawned p fires; the call that
\* awaited its result sets CONNECTED.
UiReady ==
  \E p \in Pending :
    /\ CommitMain(connectResume(Settle(Emit(Started(World), "timeout", p), p),
                                DefaultService, 6))
    /\ ui' = IF p \in ui.awaiting
             THEN [ui EXCEPT !.state = "CONNECTED", !.awaiting = @ \ {p}]
             ELSE ui
    /\ UNCHANGED <<apiOwner, engine, binaryPresent, backend>>

\* The engine process p ends; when that rejects the readiness promise the
\* call that awaited the result sets ERROR.
UiExit ==
  \E p \in Running, code \in ExitCodes :
    /\ code = -1 => procs[p].signalled
    /\ LET w == [Emit(Emit(Started(World), "exit", p), "code", code)
                   EXCEPT !.procs[p].st = Exited(code)]
       IN IF Rejects(p, code)
          THEN /\ CommitMain(connectCatch(Settle(w, p),
                                          ExitMessage(procs[p].out),
                                          [okUp |-> TRUE, okDown |-> TRUE,
                                           nOff |-> 3]))
               /\ ui' = IF p \in ui.awaiting
                        THEN [ui EXCEPT !.state = "ERROR",
                                        !.awaiting = @ \ {p}]
                        ELSE ui
          ELSE CommitMain(w) /\ ui' = ui
    /\ UNCHANGED <<apiOwner, engine, binaryPresent, backend>>

InitUi == DesktopIdle /\ BackendIdle

NextUi ==
  \/ UiToggle
  \/ UiSelectServer
  \/ UiSwitchTimer
  \/ UiReady
  \/ UiExit

SpecUi == InitUi /\ [][NextUi]_vars

\* SpecStatus: the life cycle with connects that may fail, and the status
\* query.
NextStatus ==
  \/ Connect
  \/ Disconnect
  \/ ReadyTimeoutWifi
  \/ ProcExit
  \/ GetStatus

SpecStatus == Init /\ [][NextStatus]_vars

\* SpecParse: the life cycle over every descriptor, spawn succeeding.
ConnectAny == ConnectOn(DescriptorIds, {TRUE}, Reliable)

NextParse ==
  \/ ConnectAny
  \/ Disconnect
  \/ ReadyTimeoutWifi
  \/ ProcStdoutMarker
  \/ ProcExit

SpecParse == Init /\ [][NextParse]_vars

\* ------------------------------------------------------------ auth routes
\* The clock advances; MaxTicks bounds how often.
MaxTicks == 2
Tick ==
  /\ clock + ExchangeTtl <= Epoch + MaxTicks * ExchangeTtl
  /\ clock' = clock + ExchangeTtl
  /\ log' = <<Ev("tick", clock')>>
  /\ UNCHANGED <<desktop, payments, starts, users, wire, trials, sheet, claims, held>>

\* GET /auth/telegram/callback with Logins[l] as query.  MaxCodes bounds
\* the number of codes issued.
MaxCodes == 2
TelegramCallback ==
  \E l \in DOMAIN Logins :
    /\ Len(wire) < MaxCodes
    /\ IF ~validateTelegramHash(Logins[l], TELEGRAM_BOT_TOKEN,
                                MaxAgeSeconds, clock)
       THEN /\ log' = <<Ev("callback", l), Ev("http", 403)>>
            /\ UNCHANGED <<users, wire>>
       ELSE LET id == parseInt(Param(Logins[l].fields, "id"))
                code == jwtSign([telegram_id |-> id, purpose |-> "exchange",
                                 type |-> NULL],
                                JWT_SECRET, ExchangeTtl, clock)
            IN /\ users' = upsertUser(users, id)
               /\ wire' = Append(wire, code)
               /\ log' = <<Ev("callback", l), Ev("code", Len(wire) + 1),
                           Ev("http", 302)>>
    /\ UNCHANGED <<desktop, payments, starts, clock, trials, sheet, claims, held>>

\* GET /auth/bot-redirect?tg_id=...
BotRedirect ==
  \E tg \in TelegramIds :
    /\ Len(wire) < MaxCodes
    /\ IF ~findUserByTelegramId(users, tg).registered
       THEN /\ log' = <<Ev("bot-redirect", tg), Ev("http", 404)>>
            /\ UNCHANGED wire
       ELSE LET code == jwtSign([telegram_id |-> tg, purpose |-> "exchange",
                                 type |-> NULL],
                                JWT_SECRET, RedirectTtl, clock)
            IN /\ wire' = Append(wire, code)
               /\ log' = <<Ev("bot-redirect", tg), Ev("code", Len(wire) + 1),
                           Ev("http", 200)>>
    /\ UNCHANGED <<desktop, payments, starts, clock, users, trials, sheet, claims, held>>

\* An /auth/exchange that does not look at the purpose of the code.
exchangeAnyPurpose(ref) ==
  IF ref = 0 THEN [http |-> 400, tokens |-> <<>>]
  ELSE IF ~jwtVerify(Presented(ref), JWT_SECRET, clock)
  THEN [http |-> 401, tokens |-> <<>>]
  ELSE IF ~findUserByTelegramId(users, Presented(ref).telegram_id).registered
  THEN [http |-> 404, tokens |-> <<>>]
  ELSE LET payload(type) == [telegram_id |-> Presented(ref).telegram_id,
                             purpose |-> NULL, type |-> type]
       IN [http |-> 200,
           tokens |-> <<jwtSign(payload("access"), JWT_SECRET, AccessTtl,
                                clock),
                        jwtSign(payload("refresh"), JWT_SECRET, RefreshTtl,
                                clock)>>]

\* POST /auth/exchange: the status and the tokens of the response.
exchange(ref) ==
  IF ref = 0 THEN [http |-> 400, tokens |-> <<>>]
  ELSE IF ~jwtVerify(Presented(ref), JWT_SECRET, clock)
  THEN [http |-> 401, tokens |-> <<>>]
  ELSE IF Presented(ref).purpose # "exchange"
  THEN [http |-> 401, tokens |-> <<>>]
  ELSE IF ~findUserByTelegramId(users, Presented(ref).telegram_id).registered
  THEN [http |-> 404, tokens |-> <<>>]
  ELSE LET payload(type) == [telegram_id |-> Presented(ref).telegram_id,
                             purpose |-> NULL, type |-> type]
       IN [http |-> 200,
           tokens |-> <<jwtSign(payload("access"), JWT_SECRET, AccessTtl,
                                clock),
                        jwtSign(payload("refresh"), JWT_SECRET, RefreshTtl,
                                clock)>>]

\* MaxWire bounds the number of codes and tokens issued.
MaxWire == 5
Exchange ==
  \E ref \in CodeRefs :
    LET res == exchange(ref)
    IN /\ Len(wire) + Len(res.tokens) <= MaxWire
       /\ wire' = wire \o res.tokens
       /\ log' = <<Ev("exchange", ref)>>
                   \o [i \in DOMAIN res.tokens |-> Ev("token", Len(wire) + i)]
                   \o <<Ev("http", res.http)>>
       /\ UNCHANGED <<desktop, payments, starts, clock, users, trials, sheet, claims, held>>

\* authMiddleware: the status it answers with, 0 when it calls next().
authMiddleware(ref) ==
  IF ref = 0 THEN 401
  ELSE IF ~jwtVerify(Presented(ref), JWT_SECRET, clock) THEN 401
  ELSE 0

\* GET /me with the ref-th token as Bearer token (0: no Authorization
\* header).
GetMe ==
  \E ref \in CodeRefs :
    /\ log' = <<Ev("me", ref),
                Ev("http",
                   IF authMiddleware(ref) # 0 THEN authMiddleware(ref)
                   ELSE IF ~findUserByTelegramId(
                              users, Presented(ref).telegram_id).registered
                   THEN 404 ELSE 200)>>
    /\ UNCHANGED <<desktop, backend>>

InitAuth ==
  /\ DesktopIdle
  /\ BackendIdle

NextAuth ==
  \/ Tick
  \/ TelegramCallback
  \/ BotRedirect
  \/ Exchange

SpecAuth == InitAuth /\ [][NextAuth]_vars

\* SpecMe: the auth routes and GET /me.
NextMe ==
  \/ Tick
  \/ TelegramCallback
  \/ BotRedirect
  \/ Exchange
  \/ GetMe

SpecMe == InitAuth /\ [][NextMe]_vars

\* ------------------------------------------------------------- free trial
\* The free_trial branch of handleUpdate, one action per await.  MaxTrials
\* bounds the number of callbacks handled.
MaxTrials == 2
NewUntil(row, days) == (IF row.until > 0 THEN row.until ELSE 0) + days

\* callback_query 'free_trial' up to the return or to grantSubscription.
FreeTrial ==
  \E tg \in TelegramIds :
    /\ Len(trials) < MaxTrials
    /\ LET user == findUserByTelegramId(users, tg)
       IN IF user.registered /\ user.trial_used # 0
          THEN /\ trials' = Append(trials, [tg |-> tg, pc |-> "done", until |-> 0])
               /\ log' = <<Ev("free_trial", tg), Ev("trial_already_used", tg)>>
          ELSE /\ trials' = Append(trials, [tg |-> tg, pc |-> "grant", until |-> 0])
               /\ log' = <<Ev("free_trial", tg)>>
    /\ UNCHANGED <<desktop, payments, starts, clock, users, wire, sheet, claims, held>>

\* grantSubscription up to its UPDATE: the row is read and the new date
\* computed.
GrantRead ==
  \E h \in DOMAIN trials :
    /\ trials[h].pc = "grant"
    /\ trials' = [trials EXCEPT
                    ![h].pc = "update",
                    ![h].until = NewUntil(findUserByTelegramId(users,
                                                               trials[h].tg), 1)]
    /\ log' = <<Ev("grantSubscription", trials[h].tg)>>
    /\ UNCHANGED <<desktop, payments, starts, clock, users, wire, sheet, claims, held>>

\* UPDATE users SET allowed = 1, subscription_until = ?
GrantWrite ==
  \E h \in DOMAIN trials :
    /\ trials[h].pc = "update"
    /\ users' = IF users[trials[h].tg].registered
                THEN [users EXCEPT ![trials[h].tg].until = trials[h].until]
                ELSE users
    /\ trials' = [trials EXCEPT ![h].pc = "mark"]
    /\ log' = <<Ev("granted", trials[h].tg), Ev("until", trials[h].until)>>
    /\ UNCHANGED <<desktop, payments, starts, clock, wire, sheet, claims, held>>

\* markTrialUsed: UPDATE users SET trial_used = 1
MarkTrialUsed ==
  \E h \in DOMAIN trials :
    /\ trials[h].pc = "mark"
    /\ users' = IF users[trials[h].tg].registered
                THEN [users EXCEPT ![trials[h].tg].trial_used = 1]
                ELSE users
    /\ trials' = [trials EXCEPT ![h].pc = "claim"]
    /\ log' = <<Ev("markTrialUsed", trials[h].tg)>>
    /\ UNCHANGED <<desktop, payments, starts, clock, wire, sheet, claims, held>>

\* fetchGAS(claimUrl), the message with the key, the return.
TrialClaim ==
  \E h \in DOMAIN trials :
    /\ trials[h].pc = "claim"
    /\ LET res == claimKey(sheet, trials[h].tg)
       IN /\ sheet' = setValue(sheet, res)
          /\ held' = Give(held, trials[h].tg, res)
          /\ log' = <<Ev("claimKey", trials[h].tg), Ev("key", res.key)>>
    /\ trials' = [trials EXCEPT ![h].pc = "done"]
    /\ UNCHANGED <<desktop, payments, starts, clock, users, wire, claims>>

\* User 7 has used /start, user 8 has not.
InitTrial ==
  /\ DesktopIdle
  /\ clock = Epoch
  /\ users = [u \in TelegramIds |-> IF u = 7 THEN NewUser ELSE NoUser]
  /\ wire = <<>>
  /\ trials = <<>>
  /\ sheet = [k \in Keys |-> <<>>]
  /\ claims = <<>>
  /\ held = [u \in Claimants |-> {}]
  /\ payments = <<>>
  /\ starts = <<>>

NextTrial ==
  \/ FreeTrial
  \/ GrantRead
  \/ GrantWrite
  \/ MarkTrialUsed
  \/ TrialClaim

SpecTrial == InitTrial /\ [][NextTrial]_vars

\* -------------------------------------------------------- activation keys
\* doGet ?action=claimKey up to the values read from the sheet.  MaxClaims
\* bounds the number of executions.
MaxClaims == 3
ClaimRead ==
  \E tg \in Claimants :
    /\ Len(claims) < MaxClaims
    /\ claims' = Append(claims, [tg |-> tg, data |-> sheet, pc |-> "write"])
    /\ log' = <<Ev("claimKey", tg)>>
    /\ UNCHANGED <<desktop, payments, starts, clock, users, wire, trials, sheet, held>>

\* The rest of the execution: the row is written and the key returned.
ClaimWrite ==
  \E c \in DOMAIN claims :
    /\ claims[c].pc = "write"
    /\ LET res == claimKey(claims[c].data, claims[c].tg)
       IN /\ sheet' = setValue(sheet, res)
          /\ held' = Give(held, claims[c].tg, res)
          /\ log' = <<Ev("setValue", claims[c].tg), Ev("key", res.key)>>
    /\ claims' = [claims EXCEPT ![c].pc = "done"]
    /\ UNCHANGED <<desktop, payments, starts, clock, users, wire, trials>>

\* The first key has been claimed by the first n claimants, one after the
\* other.
FirstClaimants(n) == [i \in 1..n |-> i]
InitKeys ==
  /\ DesktopIdle
  /\ clock = Epoch
  /\ users = [u \in TelegramIds |-> NoUser]
  /\ wire = <<>>
  /\ trials = <<>>
  /\ claims = <<>>
  /\ \E n \in 0..(MAX_USERS_PER_KEY - 1) :
       /\ sheet = [k \in Keys |-> IF k = 1 THEN FirstClaimants(n) ELSE <<>>]
       /\ held = [u \in Claimants |-> IF u <= n THEN {1} ELSE {}]
  /\ payments = <<>>
  /\ starts = <<>>

NextKeys ==
  \/ ClaimRead
  \/ ClaimWrite

SpecKeys == InitKeys /\ [][NextKeys]_vars

\* ---------------------------------------------------------------- payment
\* The successful_payment branch of handleUpdate, handled one update after
\* the other: the user is saved, the days of the plan are granted, the
\* payment is recorded and a key is claimed.  MaxPayments bounds the number
\* of payments.
MaxPayments == 6
PlanDays == {7, 30}
KeyRows == 1..6

grantSubscription(table, tg, days) ==
  IF table[tg].registered
  THEN [table EXCEPT ![tg].until = NewUntil(table[tg], days)]
  ELSE table

\* INSERT INTO payments
recordPayment(table, tg, days) ==
  Append(table, [telegram_id |-> tg, days_granted |-> days])

SuccessfulPayment ==
  \E tg \in TelegramIds, days \in PlanDays :
    /\ Len(payments) < MaxPayments
    /\ users' = grantSubscription(upsertUser(users, tg), tg, days)
    /\ payments' = recordPayment(payments, tg, days)
    /\ LET res == claimKey(sheet, tg)
       IN /\ sheet' = setValue(sheet, res)
          /\ held' = Give(held, tg, res)
          /\ log' = <<Ev("successful_payment", tg), Ev("granted", days),
                      Ev("recordPayment", days), Ev("claimKey", tg),
                      Ev("key", res.key)>>
    /\ UNCHANGED <<desktop, starts, clock, wire, trials, claims>>

\* ?action=getMyKeys&telegram_id=...
getMyKeys(rows, tg) == {k \in DOMAIN rows : tg \in Listed(rows[k])}

GetMyKeys ==
  \E tg \in TelegramIds :
    /\ log' = <<Ev("getMyKeys", tg), Ev("keys", Cardinality(getMyKeys(sheet, tg)))>>
    /\ UNCHANGED <<desktop, backend>>

InitPayment ==
  /\ DesktopIdle
  /\ clock = Epoch
  /\ users = [u \in TelegramIds |-> NoUser]
  /\ wire = <<>>
  /\ trials = <<>>
  /\ sheet = [k \in KeyRows |-> <<>>]
  /\ claims = <<>>
  /\ held = [u \in Claimants |-> {}]
  /\ payments = <<>>
  /\ starts = <<>>

NextPayment ==
  \/ SuccessfulPayment
  \/ GetMyKeys

SpecPayment == InitPayment /\ [][NextPayment]_vars

\* --------------------------------------------------------------- referral
\* The /start branch of handleUpdate, one action per await that reads or
\* writes the users table.  MaxStarts bounds the number of /start messages
\* handled.
MaxStarts == 2
REFERRAL_BONUS_DAYS == 3

\* The referrer named by the text of the message: ref 0 is a /start without
\* a ref_ argument; a ref_ with the sender's own id counts as none.
Referrer(tg, ref) == IF ref = 0 \/ ref = tg THEN 0 ELSE ref

\* /start up to the upsert: existingUser is read.
Start ==
  \E tg \in TelegramIds, ref \in {0} \cup TelegramIds :
    /\ Len(starts) < MaxStarts
    /\ starts' = Append(starts,
                        [tg |-> tg, referrerId |-> Referrer(tg, ref),
                         existingUser |->
                           findUserByTelegramId(users, tg).registered,
                         until |-> 0, pc |-> "upsert"])
    /\ log' = <<Ev("start", tg), Ev("ref", ref)>>
    /\ UNCHANGED <<desktop, payments, clock, users, wire, trials, sheet,
                   claims, held>>

\* upsertUser, setUserLanguage, and the test `referrerId && !existingUser`.
StartUpsert ==
  \E h \in DOMAIN starts :
    /\ starts[h].pc = "upsert"
    /\ users' = upsertUser(users, starts[h].tg)
    /\ starts' = [starts EXCEPT
                    ![h].pc = IF starts[h].referrerId # 0
                                 /\ ~starts[h].existingUser
                              THEN "referrer" ELSE "done"]
    /\ log' = <<Ev("upsertUser", starts[h].tg)>>
    /\ UNCHANGED <<desktop, payments, clock, wire, trials, sheet, claims,
                   held>>

\* addReferral: referred_by of the new user, referral_count + 1 of the
\* referrer.
addReferral(table, newUserId, referrerId) ==
  LET t1 == IF table[newUserId].registered
            THEN [table EXCEPT ![newUserId].referred_by = referrerId]
            ELSE table
  IN IF t1[referrerId].registered
     THEN [t1 EXCEPT ![referrerId].referral_count = @ + 1]
     ELSE t1

\* findUserByTelegramId(referrerId) and, when the referrer exists,
\* addReferral.
StartReferral ==
  \E h \in DOMAIN starts :
    /\ starts[h].pc = "referrer"
    /\ LET referrer == findUserByTelegramId(users, starts[h].referrerId)
       IN IF referrer.registered
          THEN /\ users' = addReferral(users, starts[h].tg,
                                       starts[h].referrerId)
               /\ starts' = [starts EXCEPT ![h].pc = "grant"]
               /\ log' = <<Ev("addReferral", starts[h].tg),
                           Ev("referrer", starts[h].referrerId)>>
          ELSE /\ users' = users
               /\ starts' = [starts EXCEPT ![h].pc = "done"]
               /\ log' = <<Ev("noReferrer", starts[h].tg)>>
    /\ UNCHANGED <<desktop, payments, clock, wire, trials, sheet, claims,
                   held>>

\* grantSubscription(referrerId, REFERRAL_BONUS_DAYS) up to its UPDATE.
BonusRead ==
  \E h \in DOMAIN starts :
    /\ starts[h].pc = "grant"
    /\ starts' = [starts EXCEPT
                    ![h].pc = "update",
                    ![h].until =
                      NewUntil(findUserByTelegramId(users,
                                                    starts[h].referrerId),
                               REFERRAL_BONUS_DAYS)]
    /\ log' = <<Ev("grantSubscription", starts[h].referrerId)>>
    /\ UNCHANGED <<desktop, payments, clock, users, wire, trials, sheet,
                   claims, held>>

\* UPDATE users SET allowed = 1, subscription_until = ?
BonusWrite ==
  \E h \in DOMAIN starts :
    /\ starts[h].pc = "update"
    /\ users' = IF users[starts[h].referrerId].registered
                THEN [users EXCEPT
                        ![starts[h].referrerId].until = starts[h].until]
                ELSE users
    /\ starts' = [starts EXCEPT ![h].pc = "done"]
    /\ log' = <<Ev("bonus", starts[h].referrerId),
                Ev("until", starts[h].until)>>
    /\ UNCHANGED <<desktop, payments, clock, wire, trials, sheet, claims,
                   held>>

\* User 7 has used /start, user 8 has not.
InitReferral == InitTrial

NextReferral ==
  \/ Start
  \/ StartUpsert
  \/ StartReferral
  \/ BonusRead
  \/ BonusWrite

SpecReferral == InitReferral /\ [][NextReferral]_vars

\* SpecGrants: free_trial callbacks and /start messages handled by the same
\* server, so that the trial grant and the referral bonus of one user can
\* overlap.
NextGrants ==
  \/ FreeTrial
  \/ GrantRead
  \/ GrantWrite
  \/ MarkTrialUsed
  \/ TrialClaim
  \/ Start
  \/ StartUpsert
  \/ StartReferral
  \/ BonusRead
  \/ BonusWrite

SpecGrants == InitTrial /\ [][NextGrants]_vars
\* ----------------------------------------------------------- properties
Turn(l, op) == l # <<>> /\ l[1].e = op
HasEv(l, e) == \E i \in DOMAIN l : l[i].e = e
Returned(l, how) == l # <<>> /\ l[Len(l)].e = how
Unsignalled == {p \in Running : ~procs[p].signalled}
ProxyOff == \A s \in Services : hostProxy[s] = {}

\* C1: a connect call takes effect only when no earlier connect is still
\* suspended on its readiness promise: the steps of two connects never
\* interleave.
C1_ConnectsSerialized ==
  [][Pending # {} => ~Turn(log', "connect")]_vars

\* C2: once the state is DISCONNECTED, no turn other than a connect call
\* moves the manager out of DISCONNECTED, gives it a process handle or
\* switches a host proxy on.
C2_DisconnectedUntilConnect ==
  [][status = "disconnected" /\ process = NoProcess /\ ~Turn(log', "connect")
     => /\ status' = "disconnected"
        /\ process' = NoProcess
        /\ \A s \in Services : hostProxy'[s] \subseteq hostProxy[s]]_vars

\* C3: a connect called in state CONNECTED that spawns a new engine process
\* does so with every earlier process signalled and every host proxy
\* setting off.
C3_TeardownBeforeSpawn ==
  [][status = "connected" /\ Turn(log', "connect") /\ HasEv(log', "spawn")
     => /\ \A p \in Running : procs'[p].signalled
        /\ \A s \in Services : hostProxy'[s] = {}]_vars

\* C4: at most one engine process is running without having been sent a
\* termination signal, and every running process the manager does not
\* reference has been signalled.
C4_OneLiveProcess ==
  /\ Cardinality(Unsignalled) <= 1
  /\ \A p \in Unsignalled : p = process

C4_Witness ==
  \E p, q \in Running : procs[p].signalled /\ q = process /\ ~procs[q].signalled

\* C5: disconnect called with no connect before it, or right after a
\* disconnect, returns ok, leaves DISCONNECTED with the error cleared and no
\* process handle, and leaves the cumulative totals as they were.
C5_DisconnectIdempotent ==
  [][Turn(log', "disconnect")
     /\ ((procs = <<>> /\ status = "disconnected") \/ Turn(log, "disconnect"))
     => /\ Returned(log', "return_ok")
        /\ status' = "disconnected"
        /\ error' = NULL
        /\ process' = NoProcess
        /\ cumulativeStats' = cumulativeStats]_vars

C5_Witness ==
  /\ log # <<>> /\ log[1] = Ev("disconnect", 1)
  /\ apiOwner # 0 /\ engine.uplink > 0
  /\ status = "disconnected"

\* C6: when a connect has just returned a failure, the state is ERROR with
\* a message, no process handle is held, no running process is left
\* unsignalled, every host proxy setting is off and the config file is gone.
C6_FailureCleansUp ==
  Returned(log, "return_fail")
  => /\ status = "error" /\ error # NULL
     /\ process = NoProcess /\ Unsignalled = {}
     /\ ProxyOff
     /\ configFile = NoFile

\* C7: a connect with a well-formed URI of another scheme than vless
\* returns a failure, spawns nothing and runs no host proxy command.
C7_ForeignSchemeRejected ==
  Turn(log, "connect") /\ Uris[log[1].n].wellformed
  /\ Uris[log[1].n].scheme # "vless"
  => /\ Returned(log, "return_fail")
     /\ ~HasEv(log, "spawn")
     /\ ~HasEv(log, "setSystemProxy") /\ ~HasEv(log, "unsetSystemProxy")

\* C8: when the process of the session exits while the state is CONNECTED,
\* the state becomes ERROR.
C8_ExitWhileConnected ==
  [][status = "connected" /\ Turn(log', "exit") /\ log'[1].n = process
     => status' = "error"]_vars

\* C9: a connect whose process has exited with code 0 before readiness
\* does not end in CONNECTED when its wait budget elapses.
C9_ZeroExitIsCrash ==
  [][Turn(log', "timeout") /\ log'[1].n = process /\ status = "connecting"
     /\ procs[process].st = "exited:0"
     => status' # "connected"]_vars

\* C10: the cumulative totals, in memory and in the stats file, never
\* decrease; a disconnect right after a connect call, or with engine
\* counters at zero, leaves them unchanged.
FileStats == _loadStats(statsFile)

C10_CumulativeMonotone ==
  [][/\ cumulativeStats'.uplink >= cumulativeStats.uplink
     /\ cumulativeStats'.downlink >= cumulativeStats.downlink
     /\ FileStats'.uplink >= FileStats.uplink
     /\ FileStats'.downlink >= FileStats.downlink
     /\ (Turn(log', "disconnect") /\ (Turn(log, "connect") \/ engine = ZeroStats)
         => cumulativeStats' = cumulativeStats /\ FileStats' = FileStats)]_vars

C10_Witness ==
  /\ Turn(log, "disconnect") /\ HasEv(log, "fold")
  /\ cumulativeStats.downlink = 2
  /\ statsFile = File(cumulativeStats)

\* C11 (as claimed): every teardown of a session in CONNECTED adds the
\* counters of the session's engine process to the cumulative totals.
SessionCounters == IF apiOwner = process THEN engine ELSE ZeroStats
Teardown(l) == Turn(l, "disconnect") \/ Turn(l, "connect")
Folds(l) == {i \in DOMAIN l : l[i].e = "fold"}
Kills(l) == {i \in DOMAIN l : l[i].e = "kill"}

C11_SessionCountersAdded ==
  [][status = "connected" /\ process # NoProcess /\ Teardown(log')
     => /\ cumulativeStats'.uplink = cumulativeStats.uplink + SessionCounters.uplink
        /\ cumulativeStats'.downlink
             = cumulativeStats.downlink + SessionCounters.downlink]_vars

\* C11 (amended): a fold happens only in a teardown from CONNECTED with the
\* process handle held, once in the turn, before the kill, and the handle is
\* dropped in the same turn and never taken again; it adds to each total
\* what the counter query returned, the engine's counter or 0; such a
\* teardown always folds when the executable is present; a turn without a
\* fold leaves the totals unchanged.
C11_FoldAtTeardown ==
  [][/\ Folds(log') # {}
        => /\ status = "connected" /\ process # NoProcess /\ Teardown(log')
           /\ Cardinality(Folds(log')) = 1
           /\ \E k \in Kills(log') : \A f \in Folds(log') : f < k
           /\ \A k \in Kills(log') : \A f \in Folds(log') : f < k
           /\ process' # process
           /\ cumulativeStats'.uplink - cumulativeStats.uplink
                \in {0, queryStats("uplink", TRUE)}
           /\ cumulativeStats'.downlink - cumulativeStats.downlink
                \in {0, queryStats("downlink", TRUE)}
     /\ (status = "connected" /\ process # NoProcess /\ Teardown(log')
         /\ binaryPresent => Folds(log') # {})
     /\ (Folds(log') = {} => cumulativeStats' = cumulativeStats)
     /\ (process' # process /\ process' # NoProcess
         => process' \notin DOMAIN procs)]_vars

C11_Witness ==
  /\ Turn(log, "disconnect")
  /\ \E f \in Folds(log) : log[f].n = 2 /\ \E k \in Kills(log) : f < k
  /\ cumulativeStats.uplink >= 1 /\ cumulativeStats.downlink >= 1

\* C12: a status query and a traffic-stats query leave the lifecycle
\* state, the error, the process handle, the recorded network service, the
\* in-memory cumulative totals and the persisted record unchanged.
C12_ReadsArePure ==
  [][Turn(log', "getStatus") \/ Turn(log', "stats")
     => UNCHANGED <<status, error, process, activeNetworkService,
                    cumulativeStats, statsFile>>]_vars

C12_Witness ==
  /\ Turn(log, "stats")
  /\ status = "connected"
  /\ \E i \in DOMAIN log : log[i].e = "sessionUplink" /\ log[i].n = 1
  /\ cumulativeStats.uplink = 1
  /\ \E i \in DOMAIN log : log[i].e = "uplink" /\ log[i].n = 2

\* C13: in every configuration written for a descriptor that parsed, the
\* port of the api inbound differs from the ports of the socks and http
\* inbounds, and a routing rule sends the private and loopback ranges to
\* the direct outbound.
Inbound(c, tag) == CHOOSE i \in {c.inbounds[k] : k \in DOMAIN c.inbounds} :
                     i.tag = tag
C13_ConfigPortsAndRule ==
  configFile # NoFile
  => LET c == configFile[1]
     IN /\ Inbound(c, "api").port # Inbound(c, "socks-in").port
        /\ Inbound(c, "api").port # Inbound(c, "http-in").port
        /\ \E k \in DOMAIN c.rules :
             /\ "ip" \in DOMAIN c.rules[k]
             /\ c.rules[k].ip = PrivateRanges
             /\ c.rules[k].outboundTag = "direct"
             /\ \E o \in DOMAIN c.outbounds :
                  /\ c.outbounds[o].tag = "direct"
                  /\ c.outbounds[o].protocol = "freedom"

C13_Witness ==
  /\ Turn(log, "connect") /\ log[1].n = 8 /\ HasEv(log, "writeConfig")
  /\ configFile # NoFile
  /\ configFile[1].outbounds[1].network = "ws"
  /\ configFile[1].outbounds[1].port = 8443
  /\ Inbound(configFile[1], "api").port = API_PORT

\* C14: a connect with a URI whose security or transport value is not a
\* supported one returns a failure and writes no configuration.
SupportedSecurity == {"", "none", "tls", "reality"}
SupportedTransport == {"", "tcp", "ws", "grpc"}
C14_UnknownModeRejected ==
  Turn(log, "connect") /\ Descriptors[log[1].n].wellformed
  /\ (\/ Descriptors[log[1].n].security \notin SupportedSecurity
      \/ Descriptors[log[1].n].type \notin SupportedTransport)
  => /\ Returned(log, "return_fail")
     /\ ~HasEv(log, "writeConfig")

\* C15: a connect with a URI without a credential, without a host or
\* without a numeric port returns a failure before the configuration is
\* written and before a process is spawned.
C15_IncompleteUriRejected ==
  Turn(log, "connect")
  /\ (\/ Descriptors[log[1].n].username = ""
      \/ Descriptors[log[1].n].hostname = ""
      \/ parseInt(Descriptors[log[1].n].port) = NaN)
  => /\ Returned(log, "return_fail")
     /\ ~HasEv(log, "writeConfig")
     /\ ~HasEv(log, "spawn")

\* C16: once a code has been exchanged for tokens, posting the same code
\* again does not return tokens.
Tokens(l) == HasEv(l, "token")
C16_CodeIsOneTime ==
  [][Turn(log, "exchange") /\ Tokens(log)
     /\ Turn(log', "exchange") /\ log'[1].n = log[1].n
     => ~Tokens(log')]_vars

\* C17: /auth/exchange returns tokens only for a code signed with the
\* server's secret, not yet expired and of purpose 'exchange'; it answers
\* any other posted code with 401 and without tokens.
GoodCode(c) ==
  /\ c.wellformed /\ c.key = JWT_SECRET
  /\ c.exp > clock
  /\ c.purpose = "exchange"
HttpStatus(l) == l[Len(l)].n
C17_TokensOnlyForGoodCode ==
  Turn(log, "exchange")
  => /\ Tokens(log) => log[1].n # 0 /\ GoodCode(Presented(log[1].n))
                       /\ HttpStatus(log) = 200
     /\ log[1].n # 0 /\ ~GoodCode(Presented(log[1].n))
        => ~Tokens(log) /\ HttpStatus(log) = 401

C17_Witness ==
  /\ Turn(log, "exchange") /\ log[1].n = -4
  /\ HttpStatus(log) = 401
  /\ \E n \in DOMAIN wire : wire[n].purpose = "exchange" /\ wire[n].exp <= clock
  /\ \E n \in DOMAIN wire : wire[n].purpose = NULL

\* C18: validateTelegramHash accepts a login exactly when it has a hash,
\* its auth_date is a number at most maxAgeSeconds before now, and the hash
\* is the digest, keyed with the bot token, of its other fields in sorted
\* order.
Genuine(l) ==
  /\ l.hash # <<>>
  /\ l.hash[1].key = sha256(TELEGRAM_BOT_TOKEN)
  /\ {l.hash[1].msg[i] : i \in DOMAIN l.hash[1].msg}
       = {l.fields[i] : i \in DOMAIN l.fields}
Fresh(l) ==
  /\ Param(l.fields, "auth_date") \in {"0", "60"}
  /\ clock - parseInt(Param(l.fields, "auth_date")) <= MaxAgeSeconds
C18_HashValidation ==
  Turn(log, "callback")
  => (HasEv(log, "code") <=> Genuine(Logins[log[1].n]) /\ Fresh(Logins[log[1].n]))

C18_Witness ==
  /\ Turn(log, "callback") /\ log[1].n = 1 /\ HasEv(log, "code")
  /\ clock = Epoch + ExchangeTtl
  /\ users[7].registered

\* C19: whatever free_trial callbacks a user sends, the user is granted the
\* trial day at most once and is given at most one trial key.
C19_TrialOnce ==
  \A tg \in TelegramIds :
    /\ users[tg].until <= 1
    /\ Cardinality(held[tg]) <= 1

MaxKeysPerAccount == 5
C21_AtMostFiveKeys ==
  \A tg \in TelegramIds :
    Cardinality(getMyKeys(sheet, tg)) <= MaxKeysPerAccount

\* C22: CONNECTED and ERROR are entered only from CONNECTING: a turn other
\* than a connect call (which sets CONNECTING itself before anything else)
\* that moves the state to CONNECTED or to ERROR starts in CONNECTING.
C22_EnteredFromConnecting ==
  [][~Turn(log', "connect") /\ status' # status
       /\ status' \in {"connected", "error"}
     => status = "connecting"]_vars

\* C23: a status query reports an error other than null exactly when the
\* reported state is ERROR.
C23_ErrorIffErrorState ==
  Turn(log, "getStatus") => (log[3].e # NULL <=> log[2].e = "error")

\* C24: the state becomes CONNECTED only in the turn of a stdout chunk with
\* the readiness marker or in the turn of the 3 s readiness timer; and when
\* the timer fires for a process that is still running, connect returns ok
\* and the state is CONNECTED.
C24_ReadyByMarkerOrTimeout ==
  [][/\ status' = "connected" /\ status # "connected"
        => \/ Turn(log', "timeout")
           \/ Turn(log', "stdout") /\ HasEv(log', "marker")
     /\ Turn(log', "timeout") /\ procs[log'[1].n].st = "running"
        => Returned(log', "return_ok") /\ status' = "connected"]_vars

C24_Witness ==
  /\ Turn(log, "timeout")
  /\ procs[log[1].n].st = "running"
  /\ Returned(log, "return_ok")
  /\ status = "connected"

\* C25: when the engine process of a connect that is still waiting for
\* readiness exits with a non-zero code, that connect returns a failure
\* whose message carries the captured output, the state is ERROR and the
\* process handle is cleared.
C25_NonZeroExitFails ==
  [][/\ Turn(log', "exit")
     /\ procs[log'[1].n].pending
     /\ log'[2].n > 0
     => /\ Returned(log', "return_fail")
        /\ status' = "error"
        /\ error' = ExitMessage(procs[log'[1].n].out)
        /\ process' = NoProcess]_vars

\* C26: whenever the readiness promise of a connect is resolved, that
\* connect returns ok and the state is CONNECTED, whether the network
\* service was resolved or not and however many proxy-on commands ran.
Resumed(l) == HasEv(l, "getActiveNetworkService")

C26_EnableFailureNotFatal ==
  Resumed(log) => Returned(log, "return_ok") /\ status = "connected"

\* the resolution failed and the first proxy-on command threw
C26_Witness ==
  /\ Resumed(log)
  /\ \E i \in DOMAIN log :
       log[i].e = "getActiveNetworkService" /\ log[i].n = 0
  /\ \E i \in DOMAIN log : log[i].e = "setSystemProxy" /\ log[i].n = 0
  /\ Returned(log, "return_ok")
  /\ status = "connected"

\* C27: when enable stopped succeeding at one of the two SOCKS commands,
\* the HTTP and HTTPS proxy settings of the service are on all the same.
C27_RemainingCommandsRun ==
  \A i \in DOMAIN log :
    log[i].e = "setSystemProxy" /\ log[i].n < 2
    => {"http", "https"} \subseteq hostProxy[activeNetworkService]

\* C28: when a teardown's first proxy-off command (SOCKS) threw, the HTTP
\* and HTTPS proxy settings of the recorded service are off all the same.
C28_AllOffCommandsRun ==
  \A i \in DOMAIN log :
    log[i].e = "unsetSystemProxy" /\ log[i].n = 0
    => hostProxy[IF activeNetworkService # NULL
                 THEN activeNetworkService ELSE DefaultService]
       \cap {"http", "https"} = {}

\* C29: a traffic-stats query returns totals and leaves the state, the
\* error and the process handle as they were; a counter whose query failed
\* is reported as 0, and each reported total is the stored cumulative total
\* plus the reported session value.
Val(l, e) == l[CHOOSE i \in DOMAIN l : l[i].e = e].n
Dirs == {"uplink", "downlink"}
Session(dir) == IF dir = "uplink" THEN "sessionUplink" ELSE "sessionDownlink"
Query(dir) == IF dir = "uplink" THEN "uplinkQuery" ELSE "downlinkQuery"

C29_StatsDegradeToZero ==
  [][Turn(log', "stats")
     => /\ UNCHANGED <<status, error, process>>
        /\ \A dir \in Dirs :
             /\ HasEv(log', dir)
             /\ HasEv(log', Query(dir)) /\ Val(log', Query(dir)) = 0
                => Val(log', Session(dir)) = 0
             /\ Val(log', dir)
                = cumulativeStats[dir]
                  + (IF HasEv(log', Session(dir))
                     THEN Val(log', Session(dir)) ELSE 0)]_vars

\* the uplink query failed while the engine had counted a byte, the
\* downlink query succeeded
C29_Witness ==
  /\ Turn(log, "stats")
  /\ status = "connected"
  /\ engine.uplink = 1
  /\ HasEv(log, "uplinkQuery")
  /\ Val(log, "uplinkQuery") = 0 /\ Val(log, "sessionUplink") = 0
  /\ Val(log, "downlinkQuery") = 1 /\ Val(log, "sessionDownlink") = 1
  /\ cumulativeStats.downlink = 1 /\ Val(log, "downlink") = 2

\* C30: an engine process is spawned only in the turn of a connect call;
\* no other turn (a process exit, a failure, a timer, output, disconnect)
\* adds a process.
C30_SpawnOnlyInConnect ==
  [][HasEv(log', "spawn") \/ Len(procs') > Len(procs)
     => Turn(log', "connect")]_vars

\* a connect spawns the second process after the first one crashed before
\* readiness and left the manager in ERROR
C30_Witness ==
  /\ Turn(log, "connect") /\ HasEv(log, "spawn")
  /\ Len(procs) = 2 /\ procs[1].st = "exited:1"
  /\ process = 2 /\ status = "connecting"

\* C31: a connect with a descriptor that parses, made while the engine
\* executable is missing, returns a failure with the message of
\* getXrayPath, spawns nothing, leaves the state ERROR and the config file
\* it wrote removed.
C31_MissingBinaryFails ==
  Turn(log, "connect") /\ ~binaryPresent /\ Uris[log[1].n].wellformed
  => /\ Returned(log, "return_fail")
     /\ ~HasEv(log, "spawn") /\ procs = <<>>
     /\ status = "error" /\ error = "xray binary not found"
     /\ configFile = NoFile

C31_Witness ==
  /\ Turn(log, "connect") /\ ~binaryPresent
  /\ HasEv(log, "writeConfig") /\ HasEv(log, "unlink")
  /\ Returned(log, "return_fail")
  /\ status = "error" /\ configFile = NoFile

\* C32: a referrer's referral_count is at most the number of users
\* recorded as referred by that referrer, no user is referred by themself
\* or by a user without a row, and the bonus days of a referrer are at most
\* REFERRAL_BONUS_DAYS for each user referred.
Referred(r) == {u \in TelegramIds : users[u].referred_by = r}

C32_ReferralOnce ==
  \A r \in TelegramIds :
    /\ users[r].referred_by # r
    /\ Referred(r) # {} => users[r].registered
    /\ users[r].referral_count <= Cardinality(Referred(r))
    /\ users[r].until <= REFERRAL_BONUS_DAYS * Cardinality(Referred(r))

\* C36: whenever no connect is waiting for readiness, the tray shows
\* 'connected' exactly when the manager's status is 'connected'.
C36_TrayAgreesWithManager ==
  Pending = {} => (vpnStatus = "connected" <=> status = "connected")

\* the connect was overtaken by a disconnect and its timer has fired
C36_Witness ==
  /\ Pending = {} /\ Turn(log, "timeout")
  /\ process = NoProcess
  /\ status = "connected" /\ vpnStatus = "connected"

\* C33: when the timer of a server switch fires while the renderer's state
\* is DISCONNECTED, a connect for the new server is issued and the
\* renderer's state becomes CONNECTING.
C33_SwitchReconnects ==
  [][ui.switch.pc = "timer" /\ ui'.switch.pc = "idle"
     /\ ui.state = "DISCONNECTED"
     => Turn(log', "connect") /\ ui'.state = "CONNECTING"]_vars

\* C34: whenever the state is CONNECTED the manager holds the handle of an
\* engine process it spawned.
C34_ConnectedHoldsProcess ==
  status = "connected" => process \in DOMAIN procs

\* C35: of two traffic-stats queries made one right after the other, the
\* second reports uplink and downlink totals at least as large as the
\* first.
C35_ReportedTotalsMonotone ==
  [][Turn(log, "stats") /\ Turn(log', "stats")
     => \A dir \in Dirs : Val(log', dir) >= Val(log, dir)]_vars

\* C37: every user who was returned a key by claimKey is listed in the
\* claimed-users cell of that key, so getMyKeys returns the key for them.
C37_ClaimedIsListed ==
  \A u \in Claimants : held[u] \subseteq getMyKeys(sheet, u)

\* C38: no step moves the subscription_until of a user to an earlier date.
C38_UntilNeverEarlier ==
  [][\A tg \in TelegramIds : users'[tg].until >= users[tg].until]_vars

\* C39: GET /me answers 401 to a request without a Bearer token, to one
\* whose token fails verification, and to one whose Bearer token is a
\* validly signed exchange code or refresh token.
NotAccess(ref) ==
  \/ ref = 0
  \/ ~jwtVerify(Presented(ref), JWT_SECRET, clock)
  \/ Presented(ref).purpose = "exchange"
  \/ Presented(ref).type = "refresh"

C39_MeRejectsOtherTokens ==
  Turn(log, "me") /\ NotAccess(log[1].n) => HttpStatus(log) = 401
====
